---- MODULE Spec2Model ----
(***************************************************************************)
(* QueryableList/Base.py: the filter-argument parser getFiltersFromArgs    *)
(* and the two evaluators QueryableListBase.filterAnd / filterOr.          *)
(*                                                                         *)
(* Python text (argument keys, str values) is a sequence of one-character  *)
(* strings, so that the regular expression, str.lower, substring tests and *)
(* string ordering are computed, not assumed.  A Python value is a record  *)
(* [t |-> type name, v |-> payload].  A call's outcome is either a         *)
(* returned value or the exception that left the call.                     *)
(***************************************************************************)
EXTENDS Integers, Sequences, FiniteSets, TLC

(* items: the list as built; self: the receiver of the latest call;        *)
(* kwargs: that call's keyword arguments, in dict order; call: which call; *)
(* outcome: what the call returned or raised.                              *)
VARIABLES items, self, kwargs, call, outcome

vars == <<items, self, kwargs, call, outcome>>

(***************************************************************************)
(* Bounds of the model.                                                    *)
(***************************************************************************)
MaxItems == 2

MaxClauses == 2

MaxParseArgs == 2

(***************************************************************************)
(* Python values.                                                          *)
(***************************************************************************)
PyNone == [t |-> "NoneType", v |-> 0]

PyBool(b) == [t |-> "bool", v |-> b]

PyInt(n) == [t |-> "int", v |-> n]

PyStr(s) == [t |-> "str", v |-> s]

PyList(l) == [t |-> "list", v |-> l]

PySet(S) == [t |-> "set", v |-> S]

NoError == [exc |-> "", arg |-> <<>>]

Return(val) == [ok |-> TRUE, err |-> NoError, val |-> val]

Raise(exc, arg) == [ok |-> FALSE, err |-> [exc |-> exc, arg |-> arg], val |-> <<>>]

SeqToSet(s) == {s[i] : i \in DOMAIN s}

MaxOf(S) == CHOOSE m \in S : \A n \in S : n <= m

(***************************************************************************)
(* str.lower, character by character.                                      *)
(***************************************************************************)
LowerChar(c) ==
    CASE c = "A" -> "a"
      [] c = "B" -> "b"
      [] c = "Z" -> "z"
      [] OTHER -> c

Lower(s) == [i \in DOMAIN s |-> LowerChar(s[i])]

(* ord(c) for the characters that occur in str values. *)
Ord(c) ==
    CASE c = "A" -> 65
      [] c = "B" -> 66
      [] c = "Z" -> 90
      [] c = "_" -> 95
      [] c = "a" -> 97
      [] c = "b" -> 98
      [] c = "z" -> 122
      [] OTHER -> 120

RECURSIVE StrLess(_, _)
StrLess(s, u) ==
    IF u = <<>> THEN FALSE
    ELSE IF s = <<>> THEN TRUE
    ELSE IF Ord(Head(s)) # Ord(Head(u)) THEN Ord(Head(s)) < Ord(Head(u))
    ELSE StrLess(Tail(s), Tail(u))

IsSubstring(sub, s) ==
    \E i \in 0..(Len(s) - Len(sub)) : SubSeq(s, i + 1, i + Len(sub)) = sub

(***************************************************************************)
(* Python operators on values.  Each comparison that can raise returns     *)
(* "T", "F" or the name of the exception.                                  *)
(***************************************************************************)
IsNumber(x) == x.t \in {"int", "bool"}

NumOf(x) == IF x.t = "bool" THEN (IF x.v THEN 1 ELSE 0) ELSE x.v

(* x == y on values that are not containers: bool is an int, None equals   *)
(* only None, a str equals only the same str.                              *)
AtomEq(x, y) ==
    IF IsNumber(x) /\ IsNumber(y) THEN NumOf(x) = NumOf(y)
    ELSE x.t = y.t /\ x.t \in {"str", "NoneType"} /\ x.v = y.v

(* x == y; never raises. *)
PyEq(x, y) ==
    IF x.t = "list" /\ y.t = "list"
    THEN /\ Len(x.v) = Len(y.v)
         /\ \A i \in DOMAIN x.v : AtomEq(x.v[i], y.v[i])
    ELSE IF x.t = "set" /\ y.t = "set"
    THEN /\ \A e \in x.v : \E f \in y.v : AtomEq(e, f)
         /\ \A f \in y.v : \E e \in x.v : AtomEq(e, f)
    ELSE AtomEq(x, y)

(* x is y.  The values compared by identity in this model are the          *)
(* singletons None, True and False, for which identity is equality of      *)
(* type and value.                                                         *)
PyIs(x, y) == x.t = y.t /\ x.v = y.v

(* x < y for numbers and for strings; Python 3 raises TypeError for the    *)
(* mixed and the None cases.  (Clause values of the ordering operators are *)
(* never lists or sets in this model.)                                     *)
Orderable(x, y) == (IsNumber(x) /\ IsNumber(y)) \/ (x.t = "str" /\ y.t = "str")

Less(x, y) == IF x.t = "str" THEN StrLess(x.v, y.v) ELSE NumOf(x) < NumOf(y)

PyLt(x, y) == IF ~Orderable(x, y) THEN "TypeError" ELSE IF Less(x, y) THEN "T" ELSE "F"

PyGt(x, y) == IF ~Orderable(x, y) THEN "TypeError" ELSE IF Less(y, x) THEN "T" ELSE "F"

PyLe(x, y) == IF ~Orderable(x, y) THEN "TypeError" ELSE IF Less(y, x) THEN "F" ELSE "T"

PyGe(x, y) == IF ~Orderable(x, y) THEN "TypeError" ELSE IF Less(x, y) THEN "F" ELSE "T"

Hashable(x) == x.t \notin {"list", "set"}

(* x in c: substring for str, element equality for list, hash lookup for   *)
(* set (the element must be hashable), TypeError for everything else.      *)
PyIn(x, c) ==
    CASE c.t = "str" ->
            IF x.t # "str" THEN "TypeError"
            ELSE IF IsSubstring(x.v, c.v) THEN "T" ELSE "F"
      [] c.t = "list" ->
            IF \E i \in DOMAIN c.v : PyEq(c.v[i], x) THEN "T" ELSE "F"
      [] c.t = "set" ->
            IF ~Hashable(x) THEN "TypeError"
            ELSE IF \E e \in c.v : AtomEq(e, x) THEN "T" ELSE "F"
      [] OTHER -> "TypeError"

(* set(value), or the value itself where set() raises (Base.py:73-76). *)
TrySet(value) ==
    CASE value.t = "list" ->
            IF \A i \in DOMAIN value.v : Hashable(value.v[i])
            THEN PySet(SeqToSet(value.v)) ELSE value
      [] value.t = "str" -> PySet({PyStr(<<value.v[i]>>) : i \in DOMAIN value.v})
      [] OTHER -> value

(* The elements a for-loop over the value visits, in order; iterable or not. *)
Iterable(value) == value.t \in {"list", "str"}

Elements(value) ==
    IF value.t = "str" THEN [i \in DOMAIN value.v |-> PyStr(<<value.v[i]>>)]
    ELSE value.v

(***************************************************************************)
(* The operator vocabulary: each filter type and its spelling.             *)
(***************************************************************************)
Spelling ==
    [eq |-> <<"e", "q">>,
     ieq |-> <<"i", "e", "q">>,
     ne |-> <<"n", "e">>,
     ine |-> <<"i", "n", "e">>,
     lt |-> <<"l", "t">>,
     gt |-> <<"g", "t">>,
     lte |-> <<"l", "t", "e">>,
     gte |-> <<"g", "t", "e">>,
     is |-> <<"i", "s">>,
     isnot |-> <<"i", "s", "n", "o", "t">>,
     isnull |-> <<"i", "s", "n", "u", "l", "l">>,
     in |-> <<"i", "n">>,
     notin |-> <<"n", "o", "t", "i", "n">>,
     contains |-> <<"c", "o", "n", "t", "a", "i", "n", "s">>,
     notcontains |-> <<"n", "o", "t", "c", "o", "n", "t", "a", "i", "n", "s">>,
     containsAny |-> <<"c", "o", "n", "t", "a", "i", "n", "s", "A", "n", "y">>,
     notcontainsAny |->
        <<"n", "o", "t", "c", "o", "n", "t", "a", "i", "n", "s", "A", "n", "y">>]

FILTER_TYPES == {Spelling[n] : n \in DOMAIN Spelling}

TypeName(filterType) == CHOOSE n \in DOMAIN Spelling : Spelling[n] = filterType

(* ret = {'eq': [], ...}: every filter type but isnull, each an empty list. *)
EmptyFilters == [n \in (DOMAIN Spelling) \ {"isnull"} |-> <<>>]

(***************************************************************************)
(* getFiltersFromArgs                                                      *)
(***************************************************************************)
(* '^(?P<field>.+)__(?P<filterType>.+)$' : the lengths the group "field"   *)
(* can take; the greedy group takes the longest.                           *)
FieldLengths(key) ==
    {p \in 1..(Len(key) - 3) : key[p + 1] = "_" /\ key[p + 2] = "_"}

(* A variant with a lazy first group, '^(?P<field>.+?)__...': the shortest  *)
(* field is taken.                                                         *)
FILTER_PARAM_RE_Lazy(key) ==
    IF FieldLengths(key) = {}
    THEN [matched |-> FALSE, field |-> <<>>, filterType |-> <<>>]
    ELSE LET p == CHOOSE m \in FieldLengths(key) : \A n \in FieldLengths(key) : m <= n
         IN [matched |-> TRUE,
             field |-> SubSeq(key, 1, p),
             filterType |-> SubSeq(key, p + 3, Len(key))]

FILTER_PARAM_RE(key) ==
    IF FieldLengths(key) = {}
    THEN [matched |-> FALSE, field |-> <<>>, filterType |-> <<>>]
    ELSE LET p == MaxOf(FieldLengths(key))
         IN [matched |-> TRUE,
             field |-> SubSeq(key, 1, p),
             filterType |-> SubSeq(key, p + 3, Len(key))]

Clause(filterType, field, value) ==
    [filterType |-> filterType, field |-> field, value |-> value]

(* A variant of the loop body with the two isnull branches exchanged. *)
ParseArg_IsnullExchanged(key, value) ==
    LET matchObj == FILTER_PARAM_RE(key)
    IN  IF ~matchObj.matched THEN Return(Clause("eq", key, value))
        ELSE IF matchObj.filterType \notin FILTER_TYPES
        THEN Raise("ValueError: Unknown filter type", matchObj.filterType)
        ELSE LET filterType == TypeName(matchObj.filterType)
                 field == matchObj.field
             IN  IF filterType = "isnull"
                 THEN IF value.t # "bool"
                      THEN Raise("ValueError: isnull requires True/False", <<>>)
                      ELSE Return(Clause(IF value.v THEN "isnot" ELSE "is", field, PyNone))
                 ELSE IF filterType \in {"in", "notin"}
                 THEN Return(Clause(filterType, field, TrySet(value)))
                 ELSE IF filterType \in {"ieq", "ine"}
                 THEN IF value.t = "str"
                      THEN Return(Clause(filterType, field, PyStr(Lower(value.v))))
                      ELSE Raise("AttributeError", <<>>)
                 ELSE Return(Clause(filterType, field, value))

(* The body of the loop over kwargs.items() for one (key, value). *)
ParseArg(key, value) ==
    LET matchObj == FILTER_PARAM_RE(key)
    IN  IF ~matchObj.matched THEN Return(Clause("eq", key, value))
        ELSE IF matchObj.filterType \notin FILTER_TYPES
        THEN Raise("ValueError: Unknown filter type", matchObj.filterType)
        ELSE LET filterType == TypeName(matchObj.filterType)
                 field == matchObj.field
             IN  IF filterType = "isnull"
                 THEN IF value.t # "bool"
                      THEN Raise("ValueError: isnull requires True/False", <<>>)
                      ELSE Return(Clause(IF value.v THEN "is" ELSE "isnot", field, PyNone))
                 ELSE IF filterType \in {"in", "notin"}
                 THEN Return(Clause(filterType, field, TrySet(value)))
                 ELSE IF filterType \in {"ieq", "ine"}
                 THEN IF value.t = "str"
                      THEN Return(Clause(filterType, field, PyStr(Lower(value.v))))
                      ELSE Raise("AttributeError", <<>>)
                 ELSE Return(Clause(filterType, field, value))

RECURSIVE ParseFrom(_, _, _)
ParseFrom(kw, i, ret) ==
    IF i > Len(kw) THEN Return(ret)
    ELSE LET r == ParseArg(kw[i].key, kw[i].value)
         IN  IF ~r.ok THEN r
             ELSE ParseFrom(kw, i + 1,
                    [ret EXCEPT ![r.val.filterType] =
                        Append(@, <<r.val.field, r.val.value>>)])

getFiltersFromArgs(kw) == ParseFrom(kw, 1, EmptyFilters)

(***************************************************************************)
(* The field accessor.  The base class leaves it to the subclass; a record *)
(* here is a mapping from field names to values and a missing field is the *)
(* accessor's own failure.                                                 *)
(***************************************************************************)
get_item_value(item, fieldName) ==
    IF fieldName \in DOMAIN item THEN Return(item[fieldName])
    ELSE Raise("KeyError", fieldName)

(* didContain after "for maybeContains in value: if maybeContains in       *)
(* itemValue: didContain = True; break", or the exception the test raises. *)
RECURSIVE DidContain(_, _)
DidContain(elems, itemValue) ==
    IF elems = <<>> THEN "F"
    ELSE LET r == PyIn(Head(elems), itemValue)
         IN  IF r = "F" THEN DidContain(Tail(elems), itemValue) ELSE r

(***************************************************************************)
(* filterAnd.  One clause of one loop: "pass" (the loop goes on),          *)
(* "reject" (keepIt = False; break) or the exception raised.               *)
(***************************************************************************)
AndCheck(filterType, itemValue, value) ==
    CASE filterType = "is" -> IF ~PyIs(itemValue, value) THEN "reject" ELSE "pass"
      [] filterType = "isnot" -> IF PyIs(itemValue, value) THEN "reject" ELSE "pass"
      [] filterType = "in" ->
            LET r == PyIn(itemValue, value)
            IN  IF r = "F" THEN "reject" ELSE IF r = "T" THEN "pass" ELSE r
      [] filterType = "notin" ->
            LET r == PyIn(itemValue, value)
            IN  IF r = "T" THEN "reject" ELSE IF r = "F" THEN "pass" ELSE r
      [] filterType = "eq" -> IF ~PyEq(itemValue, value) THEN "reject" ELSE "pass"
      [] filterType = "ieq" ->
            IF itemValue.t # "str" THEN "reject"
            ELSE IF ~PyEq(PyStr(Lower(itemValue.v)), value) THEN "reject" ELSE "pass"
      [] filterType = "ne" -> IF PyEq(itemValue, value) THEN "reject" ELSE "pass"
      [] filterType = "ine" ->
            IF itemValue.t # "str" THEN "pass"
            ELSE IF PyEq(PyStr(Lower(itemValue.v)), value) THEN "reject" ELSE "pass"
      [] filterType = "lt" ->
            LET r == PyGe(itemValue, value)
            IN  IF r = "T" THEN "reject" ELSE IF r = "F" THEN "pass" ELSE r
      [] filterType = "lte" ->
            LET r == PyGt(itemValue, value)
            IN  IF r = "T" THEN "reject" ELSE IF r = "F" THEN "pass" ELSE r
      [] filterType = "gt" ->
            LET r == PyLe(itemValue, value)
            IN  IF r = "T" THEN "reject" ELSE IF r = "F" THEN "pass" ELSE r
      [] filterType = "gte" ->
            LET r == PyLt(itemValue, value)
            IN  IF r = "T" THEN "reject" ELSE IF r = "F" THEN "pass" ELSE r
      [] filterType = "contains" ->
            IF PyIn(value, itemValue) = "T" THEN "pass" ELSE "reject"
      [] filterType = "notcontains" ->
            IF PyIn(value, itemValue) = "T" THEN "reject" ELSE "pass"
      [] filterType = "containsAny" ->
            IF ~Iterable(value) THEN "TypeError"
            ELSE LET r == DidContain(Elements(value), itemValue)
                 IN  IF r = "F" THEN "reject" ELSE IF r = "T" THEN "pass" ELSE r
      [] filterType = "notcontainsAny" -> "NameError"

(* "for fieldName, value in filters[filterType]: ..." for one item. *)
RECURSIVE AndLoop(_, _, _)
AndLoop(filterType, clauses, item) ==
    IF clauses = <<>> THEN "pass"
    ELSE LET got == get_item_value(item, Head(clauses)[1])
         IN  IF ~got.ok THEN got.err.exc
             ELSE LET r == AndCheck(filterType, got.val, Head(clauses)[2])
                  IN  IF r = "pass" THEN AndLoop(filterType, Tail(clauses), item)
                      ELSE r

(* The order in which filterAnd and filterOr run their loops. *)
LoopOrder ==
    <<"is", "isnot", "in", "notin", "eq", "ieq", "ne", "ine", "lt", "lte",
      "gt", "gte", "contains", "notcontains", "containsAny", "notcontainsAny">>

(* A variant of the loop sequence without "if keepIt is False: continue"   *)
(* between the loops and with keepIt set by every loop: the last loop      *)
(* decides.                                                                *)
RECURSIVE AndItem_LastLoopDecides(_, _, _)
AndItem_LastLoopDecides(order, filters, item) ==
    IF order = <<>> THEN "pass"
    ELSE LET r == AndLoop(Head(order), filters[Head(order)], item)
         IN  IF r \in {"pass", "reject"} /\ Tail(order) # <<>>
             THEN AndItem_LastLoopDecides(Tail(order), filters, item)
             ELSE r

(* The body of "for item in self": the loops in the given order, each      *)
(* followed by "if keepIt is False: continue".                             *)
RECURSIVE AndItem(_, _, _)
AndItem(order, filters, item) ==
    IF order = <<>> THEN "pass"
    ELSE LET r == AndLoop(Head(order), filters[Head(order)], item)
         IN  IF r = "pass" THEN AndItem(Tail(order), filters, item) ELSE r

(* A variant that puts each kept item in front of ret instead of           *)
(* appending it.                                                           *)
RECURSIVE AndItems_Prepending(_, _, _, _)
AndItems_Prepending(order, filters, rest, ret) ==
    IF rest = <<>> THEN Return(ret)
    ELSE LET r == AndItem(order, filters, Head(rest))
         IN  IF r = "pass"
             THEN AndItems_Prepending(order, filters, Tail(rest), <<Head(rest)>> \o ret)
             ELSE IF r = "reject" THEN AndItems_Prepending(order, filters, Tail(rest), ret)
             ELSE Raise(r, <<>>)

RECURSIVE AndItems(_, _, _, _)
AndItems(order, filters, rest, ret) ==
    IF rest = <<>> THEN Return(ret)
    ELSE LET r == AndItem(order, filters, Head(rest))
         IN  IF r = "pass"
             THEN AndItems(order, filters, Tail(rest), Append(ret, Head(rest)))
             ELSE IF r = "reject" THEN AndItems(order, filters, Tail(rest), ret)
             ELSE Raise(r, <<>>)

(* filterAnd with its loops run in the given order. *)
filterAndIn(order, list, kw) ==
    LET filters == getFiltersFromArgs(kw)
    IN  IF ~filters.ok THEN filters
        ELSE AndItems(order, filters.val, list, <<>>)

filterAnd(list, kw) == filterAndIn(LoopOrder, list, kw)

(***************************************************************************)
(* filterOr.  One clause of one loop: "keep" (keepIt = True; break),       *)
(* "next" (the loop goes on), "break" (the loop is left with keepIt still  *)
(* False) or the exception raised.                                         *)
(***************************************************************************)
OrCheck(filterType, itemValue, value) ==
    CASE filterType = "is" -> IF PyIs(itemValue, value) THEN "keep" ELSE "next"
      [] filterType = "isnot" -> IF ~PyIs(itemValue, value) THEN "keep" ELSE "next"
      [] filterType = "in" ->
            LET r == PyIn(itemValue, value)
            IN  IF r = "T" THEN "keep" ELSE IF r = "F" THEN "next" ELSE r
      [] filterType = "notin" ->
            LET r == PyIn(itemValue, value)
            IN  IF r = "F" THEN "keep" ELSE IF r = "T" THEN "next" ELSE r
      [] filterType = "eq" -> IF PyEq(itemValue, value) THEN "keep" ELSE "next"
      [] filterType = "ieq" ->
            IF itemValue.t # "str" THEN "break"
            ELSE IF PyEq(PyStr(Lower(itemValue.v)), value) THEN "keep" ELSE "next"
      [] filterType = "ne" -> IF ~PyEq(itemValue, value) THEN "keep" ELSE "next"
      [] filterType = "ine" ->
            IF itemValue.t # "str" THEN "next"
            ELSE IF ~PyEq(PyStr(Lower(itemValue.v)), value) THEN "keep" ELSE "next"
      [] filterType = "lt" ->
            LET r == PyLt(itemValue, value)
            IN  IF r = "T" THEN "keep" ELSE IF r = "F" THEN "next" ELSE r
      [] filterType = "lte" ->
            LET r == PyLe(itemValue, value)
            IN  IF r = "T" THEN "keep" ELSE IF r = "F" THEN "next" ELSE r
      [] filterType = "gt" ->
            LET r == PyGt(itemValue, value)
            IN  IF r = "T" THEN "keep" ELSE IF r = "F" THEN "next" ELSE r
      [] filterType = "gte" ->
            LET r == PyGe(itemValue, value)
            IN  IF r = "T" THEN "keep" ELSE IF r = "F" THEN "next" ELSE r
      [] filterType = "contains" ->
            IF PyIn(value, itemValue) = "T" THEN "keep" ELSE "next"
      [] filterType = "notcontains" ->
            IF PyIn(value, itemValue) = "T" THEN "next" ELSE "keep"
      [] filterType = "containsAny" ->
            IF ~Iterable(value) THEN "TypeError"
            ELSE LET r == DidContain(Elements(value), itemValue)
                 IN  IF r = "T" THEN "keep" ELSE IF r = "F" THEN "next" ELSE r
      [] filterType = "notcontainsAny" -> "NameError"

RECURSIVE OrLoop(_, _, _)
OrLoop(filterType, clauses, item) ==
    IF clauses = <<>> THEN "next"
    ELSE LET got == get_item_value(item, Head(clauses)[1])
         IN  IF ~got.ok THEN got.err.exc
             ELSE LET r == OrCheck(filterType, got.val, Head(clauses)[2])
                  IN  IF r = "next" THEN OrLoop(filterType, Tail(clauses), item)
                      ELSE IF r = "break" THEN "next"
                      ELSE r

(* The body of "for item in self": the loops in order, each followed by    *)
(* "if keepIt is True: ret.append(item); continue".                        *)
RECURSIVE OrItem(_, _, _)
OrItem(order, filters, item) ==
    IF order = <<>> THEN "drop"
    ELSE LET r == OrLoop(Head(order), filters[Head(order)], item)
         IN  IF r = "next" THEN OrItem(Tail(order), filters, item) ELSE r

RECURSIVE OrItems(_, _, _)
OrItems(filters, rest, ret) ==
    IF rest = <<>> THEN Return(ret)
    ELSE LET r == OrItem(LoopOrder, filters, Head(rest))
         IN  IF r = "keep" THEN OrItems(filters, Tail(rest), Append(ret, Head(rest)))
             ELSE IF r = "drop" THEN OrItems(filters, Tail(rest), ret)
             ELSE Raise(r, <<>>)

filterOr(list, kw) ==
    LET filters == getFiltersFromArgs(kw)
    IN  IF ~filters.ok THEN filters
        ELSE OrItems(filters.val, list, <<>>)

(***************************************************************************)
(* The inputs the model draws from: records with the fields a and b, and   *)
(* keyword arguments over every filter type.                               *)
(***************************************************************************)
fa == <<"a">>

fb == <<"b">>

Item(x, y) == [f \in {fa, fb} |-> IF f = fa THEN x ELSE y]

Records ==
    {Item(PyStr(<<"A", "b">>), PyInt(1)),
     Item(PyNone, PyStr(<<"a", "b">>)),
     Item(PyStr(<<"B">>), PyInt(2)),
     Item(PyList(<<PyStr(<<"b">>)>>), PyNone)}

Lists == UNION {[1..n -> Records] : n \in 0..MaxItems}

Arg(key, value) == [key |-> key, value |-> value]

Key(field, suffix) == field \o <<"_", "_">> \o suffix

Args ==
    {Arg(fa, PyStr(<<"A", "b">>)),
     Arg(Key(fb, Spelling.eq), PyInt(1)),
     Arg(Key(fa, Spelling.ieq), PyStr(<<"A", "B">>)),
     Arg(Key(fb, Spelling.ieq), PyStr(<<"a", "B">>)),
     Arg(Key(fa, Spelling.ne), PyStr(<<"A", "b">>)),
     Arg(Key(fa, Spelling.ine), PyStr(<<"A", "B">>)),
     Arg(Key(fb, Spelling.lt), PyInt(2)),
     Arg(Key(fa, Spelling.lte), PyStr(<<"A", "b">>)),
     Arg(Key(fb, Spelling.gt), PyInt(1)),
     Arg(Key(fb, Spelling.gte), PyInt(2)),
     Arg(Key(fa, Spelling.is), PyNone),
     Arg(Key(fa, Spelling.isnot), PyNone),
     Arg(Key(fa, Spelling.isnull), PyBool(TRUE)),
     Arg(Key(fa, Spelling.isnull), PyBool(FALSE)),
     Arg(Key(fb, Spelling.in), PyList(<<PyInt(1), PyStr(<<"a", "b">>)>>)),
     Arg(Key(fa, Spelling.notin), PyList(<<PyStr(<<"A", "b">>)>>)),
     Arg(Key(fa, Spelling.notin), PyInt(5)),
     Arg(Key(fa, Spelling.contains), PyStr(<<"b">>)),
     Arg(Key(fa, Spelling.notcontains), PyStr(<<"b">>)),
     Arg(Key(fa, Spelling.containsAny), PyList(<<PyStr(<<"z">>), PyStr(<<"b">>)>>)),
     Arg(Key(fa, Spelling.notcontainsAny), PyList(<<PyStr(<<"z">>)>>))}

(* A dict has each key once; its items come in insertion order. *)
DistinctKeys(kw) == \A i, j \in DOMAIN kw : kw[i].key = kw[j].key => i = j

KwargsOver(args, n) == {kw \in UNION {[1..m -> args] : m \in 0..n} : DistinctKeys(kw)}

(* Every argument of Args parses.  Arguments of different filter types go  *)
(* to different lists of the filter map, so only the order of arguments of *)
(* the same type reaches the filters: Kwargs lists the arguments by filter *)
(* type and those of one type in every order.                              *)
TypeOf(arg) == ParseArg(arg.key, arg.value).val.filterType

Rank(n) == CHOOSE i \in DOMAIN LoopOrder : LoopOrder[i] = n

ArgRank == [a \in Args |-> Rank(TypeOf(a))]

ByType(kw) == \A i, j \in DOMAIN kw : i < j => ArgRank[kw[i]] <= ArgRank[kw[j]]

Kwargs == {kw \in KwargsOver(Args, MaxClauses) : ByType(kw)}

(***************************************************************************)
(* The state machine: a list is built, then receives one call; the result  *)
(* of filterAnd may be filtered again with the same arguments.  The calls  *)
(* never change their receiver.                                            *)
(***************************************************************************)
Init ==
    /\ items \in Lists
    /\ self = items
    /\ kwargs = <<>>
    /\ call = "new"
    /\ outcome = Return(<<>>)

CallGetFiltersFromArgs(universe) ==
    /\ call = "new"
    /\ \E kw \in universe :
          /\ kwargs' = kw
          /\ outcome' = getFiltersFromArgs(kw)
    /\ call' = "getFiltersFromArgs"
    /\ UNCHANGED <<items, self>>

CallFilterAnd(universe) ==
    /\ call = "new"
    /\ \E kw \in universe :
          /\ kwargs' = kw
          /\ outcome' = filterAnd(self, kw)
    /\ call' = "filterAnd"
    /\ UNCHANGED <<items, self>>

CallFilterOr(universe) ==
    /\ call = "new"
    /\ \E kw \in universe :
          /\ kwargs' = kw
          /\ outcome' = filterOr(self, kw)
    /\ call' = "filterOr"
    /\ UNCHANGED <<items, self>>

(* filterAnd applied to the list filterAnd returned, with the same         *)
(* arguments: the returned list is the receiver of the second call.        *)
CallFilterAndAgain ==
    /\ call = "filterAnd"
    /\ outcome.ok
    /\ self' = outcome.val
    /\ call' = "filterAnd.filterAnd"
    /\ outcome' = filterAnd(outcome.val, kwargs)
    /\ UNCHANGED <<items, kwargs>>

Next ==
    \/ CallGetFiltersFromArgs(Kwargs)
    \/ CallFilterAnd(Kwargs)
    \/ CallFilterOr(Kwargs)
    \/ CallFilterAndAgain

Spec == Init /\ [][Next]_vars

(***************************************************************************)
(* A second specification for the parser: keys whose field or suffix       *)
(* contains underscores, unknown suffixes, keys with nothing on one side   *)
(* of the separator, arguments that fail to parse in any position.         *)
(***************************************************************************)
between == <<"b", "e", "t", "w", "e", "e", "n">>

ParseFields == {fa, <<"a", "_">>, <<"a", "_", "_", "b">>}

ParseSuffixes ==
    {Spelling.eq, Spelling.ieq, Spelling.ine, Spelling.isnull, between,
     <<"E", "Q">>, <<"e">>, <<"e", "q", "q">>, <<"q", "_">>}

ParseKeys ==
    {Key(f, x) : f \in ParseFields, x \in ParseSuffixes}
        \cup {fa, Key(fa, <<>>), Key(<<>>, Spelling.eq),
              Key(fa, <<"_">>), Key(Key(fa, Spelling.eq), <<>>)}

ParseArgs == {Arg(k, v) : k \in ParseKeys, v \in {PyBool(TRUE), PyStr(<<"A", "b">>)}}

ParseKwargs == KwargsOver(ParseArgs, MaxParseArgs)

InitParse ==
    /\ items = <<Item(PyStr(<<"A", "b">>), PyInt(1)), Item(PyNone, PyStr(<<"a", "b">>))>>
    /\ self = items
    /\ kwargs = <<>>
    /\ call = "new"
    /\ outcome = Return(<<>>)

NextParse ==
    \/ CallGetFiltersFromArgs(ParseKwargs)
    \/ CallFilterAnd(ParseKwargs)
    \/ CallFilterOr(ParseKwargs)
    \/ CallFilterAndAgain

SpecParse == InitParse /\ [][NextParse]_vars

(***************************************************************************)
(* What the specification says a clause means (section 4.2), for a field   *)
(* value x and a normalized clause value v: "T", "F", or "E" where the     *)
(* specification makes the comparison a hard error or leaves it open.      *)
(***************************************************************************)
TF(b) == IF b THEN "T" ELSE "F"

Soft(r) == IF r \in {"T", "F"} THEN r ELSE "E"

Negated(r) == IF r = "T" THEN "F" ELSE IF r = "F" THEN "T" ELSE r

AnyContained(v, x) == \E e \in SeqToSet(Elements(v)) : PyIn(e, x) = "T"

Satisfied(filterType, x, v) ==
    CASE filterType = "eq" -> TF(PyEq(x, v))
      [] filterType = "ieq" -> TF(x.t = "str" /\ PyEq(PyStr(Lower(x.v)), v))
      [] filterType = "ne" -> TF(~PyEq(x, v))
      [] filterType = "ine" -> TF(x.t # "str" \/ ~PyEq(PyStr(Lower(x.v)), v))
      [] filterType = "lt" -> Soft(PyLt(x, v))
      [] filterType = "lte" -> Soft(PyLe(x, v))
      [] filterType = "gt" -> Soft(PyGt(x, v))
      [] filterType = "gte" -> Soft(PyGe(x, v))
      [] filterType = "is" -> TF(PyIs(x, v))
      [] filterType = "isnot" -> TF(~PyIs(x, v))
      [] filterType = "in" -> Soft(PyIn(x, v))
      [] filterType = "notin" -> Negated(Soft(PyIn(x, v)))
      [] filterType = "contains" -> TF(PyIn(v, x) = "T")
      [] filterType = "notcontains" -> TF(PyIn(v, x) # "T")
      [] filterType = "containsAny" -> TF(AnyContained(v, x))
      [] filterType = "notcontainsAny" -> TF(~AnyContained(v, x))

(* The clauses of a normalized filter map, each <<filter type, field, value>>. *)
ClausesOf(filters) ==
    UNION {{<<n, filters[n][i][1], filters[n][i][2]>> : i \in DOMAIN filters[n]} :
             n \in DOMAIN filters}

Parsed == getFiltersFromArgs(kwargs)

Clauses == ClausesOf(Parsed.val)

ClauseHolds(c, item) == Satisfied(c[1], item[c[2]], c[3])

(* Every clause has a defined truth value on every record of the list. *)
WellDefined == \A c \in Clauses : \A i \in DOMAIN items : ClauseHolds(c, items[i]) # "E"

AllHold(item) == \A c \in Clauses : ClauseHolds(c, item) = "T"

SomeHolds(item) == \E c \in Clauses : ClauseHolds(c, item) = "T"

(***************************************************************************)
(* C1.  For every list and every set of arguments that parses, filterAnd   *)
(* returns exactly the records for which every clause is satisfied, in     *)
(* their original order and with duplicates kept.                          *)
(***************************************************************************)
C1_FilterAndKeepsExactlyTheMatching ==
    (call = "filterAnd" /\ Parsed.ok /\ WellDefined)
        => outcome = Return(SelectSeq(items, AllHold))

(***************************************************************************)
(* C2.  Whenever filterOr returns, it has kept a record if and only if at  *)
(* least one clause is satisfied for it, whatever the earlier clauses of   *)
(* the same operator did and also when a field value cannot be             *)
(* case-folded.                                                            *)
(***************************************************************************)
C2_FilterOrKeepsIffSomeClauseHolds ==
    (call = "filterOr" /\ outcome.ok /\ WellDefined)
        => outcome.val = SelectSeq(items, SomeHolds)

(***************************************************************************)
(* C3.  With exactly one clause, filterAnd and filterOr have the same      *)
(* outcome on every list.                                                  *)
(***************************************************************************)
C3_OneClauseAndEqualsOr ==
    (call = "filterAnd" /\ Len(kwargs) = 1) => outcome = filterOr(items, kwargs)

(***************************************************************************)
(* C4.  filterAnd is idempotent: filtering the list filterAnd returned     *)
(* with the same arguments returns that list again, element for element.   *)
(***************************************************************************)
C4_FilterAndIdempotent ==
    call = "filterAnd.filterAnd" => outcome = Return(self)

W4_RefilteredProperSublist ==
    /\ call = "filterAnd.filterAnd"
    /\ Len(self) >= 1
    /\ Len(items) > Len(self)
    /\ outcome.ok

(***************************************************************************)
(* C5.  A key field__suffix (field and suffix not empty) whose suffix, the *)
(* text after the last "__", is no filter type makes the parse fail with   *)
(* the unknown-filter-type error naming that suffix; the filter calls fail *)
(* the same way, before any item is read, and return no list.  (When an    *)
(* earlier argument already fails, its error is the one raised.)           *)
(***************************************************************************)
(* The positions of "__" in a key. *)
Separators(key) == {q \in 1..(Len(key) - 1) : key[q] = "_" /\ key[q + 1] = "_"}

HasFieldAndSuffix(key) ==
    /\ Separators(key) # {}
    /\ MaxOf(Separators(key)) > 1
    /\ MaxOf(Separators(key)) + 1 < Len(key)

SuffixOf(key) == SubSeq(key, MaxOf(Separators(key)) + 2, Len(key))

UnknownSuffix(key) == HasFieldAndSuffix(key) /\ SuffixOf(key) \notin FILTER_TYPES

C5_UnknownSuffixRaises ==
    \A i \in DOMAIN kwargs :
        (/\ call \in {"getFiltersFromArgs", "filterAnd", "filterOr"}
         /\ UnknownSuffix(kwargs[i].key)
         /\ \A j \in 1..(i - 1) : getFiltersFromArgs(<<kwargs[j]>>).ok)
            => outcome = Raise("ValueError: Unknown filter type", SuffixOf(kwargs[i].key))

W5_UnknownSuffixInFilterCall ==
    /\ call = "filterAnd"
    /\ self # <<>>
    /\ \E i \in DOMAIN kwargs :
          /\ UnknownSuffix(kwargs[i].key)
          /\ Len(SuffixOf(kwargs[i].key)) < Len(kwargs[i].key) - 3
    /\ ~outcome.ok

(***************************************************************************)
(* C6.  field__isnull=True parses to what field__is=None parses to, and    *)
(* field__isnull=False to what field__isnot=None parses to; so the parse,  *)
(* filterAnd and filterOr have the same outcome for either form, and the   *)
(* normalized filter map has no isnull entry.                              *)
(***************************************************************************)
IsnullKey(key) ==
    /\ Len(key) > Len(Spelling.isnull) + 2
    /\ SubSeq(key, Len(key) - Len(Spelling.isnull) - 1, Len(key))
          = Key(<<>>, Spelling.isnull)

FieldOfIsnull(key) == SubSeq(key, 1, Len(key) - Len(Spelling.isnull) - 2)

IsnullForm(arg) == IsnullKey(arg.key) /\ arg.value.t = "bool"

IsForm(arg) ==
    IF ~IsnullForm(arg) THEN arg
    ELSE Arg(Key(FieldOfIsnull(arg.key),
                 IF arg.value.v THEN Spelling.is ELSE Spelling.isnot),
             PyNone)

IsFormOf(kw) == [i \in DOMAIN kw |-> IsForm(kw[i])]

C6_IsnullIsTheIsForm ==
    ((\E i \in DOMAIN kwargs : IsnullForm(kwargs[i])) /\ DistinctKeys(IsFormOf(kwargs)))
        => /\ call = "getFiltersFromArgs" =>
                /\ outcome = getFiltersFromArgs(IsFormOf(kwargs))
                /\ outcome.ok => "isnull" \notin DOMAIN outcome.val
           /\ call = "filterAnd" => outcome = filterAnd(items, IsFormOf(kwargs))
           /\ call = "filterOr" => outcome = filterOr(items, IsFormOf(kwargs))

W6_IsnullFilters ==
    /\ call = "filterAnd"
    /\ \E i \in DOMAIN kwargs : IsnullForm(kwargs[i])
    /\ outcome.ok
    /\ Len(outcome.val) >= 1
    /\ Len(outcome.val) < Len(items)

(***************************************************************************)
(* C7.  An ieq or ine argument whose value has no lower-case form (it is   *)
(* no string) does not make the parse fail: the raw value is stored in the *)
(* clause.                                                                 *)
(***************************************************************************)
FoldingKey(key) ==
    HasFieldAndSuffix(key) /\ SuffixOf(key) \in {Spelling.ieq, Spelling.ine}

C7_UnfoldableValueIsStoredRaw ==
    (/\ call = "getFiltersFromArgs"
     /\ Len(kwargs) = 1
     /\ FoldingKey(kwargs[1].key)
     /\ kwargs[1].value.t # "str")
        => /\ outcome.ok
           /\ \E c \in ClausesOf(outcome.val) : c[3] = kwargs[1].value

(***************************************************************************)
(* C8.  Where a record's field value supports no membership test, a        *)
(* contains clause and a containsAny clause are a non-match for that       *)
(* record and the call does not raise: filterAnd and filterOr return, and  *)
(* the record is not in the result.                                        *)
(***************************************************************************)
NoMembership(x) == x.t \notin {"str", "list", "set"}

C8_NoMembershipIsANonMatch ==
    (/\ call \in {"filterAnd", "filterOr"}
     /\ Parsed.ok
     /\ Cardinality(Clauses) = 1
     /\ \A c \in Clauses : c[1] \in {"contains", "containsAny"})
        => /\ outcome.ok
           /\ \A c \in Clauses : \A i \in DOMAIN outcome.val :
                  ~NoMembership(outcome.val[i][c[2]])

(***************************************************************************)
(* C9.  A notcontainsAny clause is evaluated with its own value and        *)
(* without error: with that clause alone, filterAnd and filterOr return    *)
(* the records whose field contains none of the value's elements.          *)
(***************************************************************************)
C9_NotContainsAnyUsesClauseValue ==
    (/\ call \in {"filterAnd", "filterOr"}
     /\ Parsed.ok
     /\ Cardinality(Clauses) = 1
     /\ \A c \in Clauses : c[1] = "notcontainsAny")
        => outcome = Return(SelectSeq(items, AllHold))

(***************************************************************************)
(* C10.  The loops of filterAnd can run in any order.                      *)
(***************************************************************************)
(* The filter types that have a clause, in the order filterAnd runs them,  *)
(* and every order in which their loops could run.  A loop over no clause  *)
(* does nothing, so these are all the orders that differ.                  *)
UsedTypes == SelectSeq(LoopOrder, LAMBDA n : Parsed.val[n] # <<>>)

Orders ==
    {p \in [DOMAIN UsedTypes -> SeqToSet(UsedTypes)] :
        \A i, j \in DOMAIN p : p[i] = p[j] => i = j}

(* C10 as claimed: the outcome of filterAnd, the returned list or the      *)
(* error raised, is the same in whatever order the loops run.              *)
C10_OutcomeIndependentOfOrder ==
    (call = "filterAnd" /\ Parsed.ok)
        => \A p \in Orders : filterAndIn(p, items, kwargs) = outcome

(* C10 as amended: whenever filterAnd returns and the loops run in another *)
(* order return too, both return the same list.                            *)
C10_ReturnedListIndependentOfOrder ==
    (call = "filterAnd" /\ outcome.ok)
        => \A p \in Orders :
              LET other == filterAndIn(p, items, kwargs)
              IN  other.ok => other = outcome

W10_TwoLoopsFilter ==
    /\ call = "filterAnd"
    /\ outcome.ok
    /\ Len(UsedTypes) >= 2
    /\ Len(outcome.val) >= 1
    /\ Len(outcome.val) < Len(items)
    /\ \A p \in Orders : filterAndIn(p, items, kwargs).ok

====
